---- MODULE Spec2Model ----
(***************************************************************************)
(* Post-build validation of a package directory (vcpkg,                    *)
(* toolsrc/src/vcpkg/postbuildlint.cpp).                                   *)
(*                                                                         *)
(* One behaviour is one call of perform_all_checks: the state holds the    *)
(* inputs of the call (the package tree, the binary artifacts' metadata,   *)
(* the policy registry, the build configuration), the position of the      *)
(* call in the hand-sequenced list of checks, the accumulating error       *)
(* count and the diagnostics printed so far.                               *)
(***************************************************************************)
EXTENDS Integers, Sequences, FiniteSets, TLC

\* The package and its configuration differ from the base package (a clean
\* header-only package built with the default configuration) in at most
\* this many files, policies and options; every linkage mode is tried with
\* each.
MaxDeviations == 2

\* The same bound for the calls whose termination is checked.
MaxDeviationsFair == 1

\* The same for the calls that are made again with one more policy.
MaxDeviationsPolicy == 1

VARIABLES
    tree,                 \* the files and empty directories below package_dir
    src_tree,             \* the files in the roots of the unpacked sources
    policies,             \* build_info.policies: BuildPolicy -> BOOLEAN
    library_linkage,      \* build_info.library_linkage
    crt_linkage,          \* build_info.crt_linkage
    target_architecture,  \* pre_build_info.target_architecture
    platform_toolset,     \* pre_build_info.platform_toolset, <<>> when absent
    build_type,           \* pre_build_info.build_type, <<>> when absent
    cmake_system_name,    \* pre_build_info.cmake_system_name
    dumpbin,              \* toolset.dumpbin, <<>> when the tool is not there
    win32,                \* whether the build defines _WIN32
    pc,                   \* the check the call is about to make
    error_count,          \* the local error_count of the call
    verdicts,             \* the LintStatus every finished check returned
    log,                  \* everything System::println printed
    invocations,          \* every run of the external tool and every COFF read
    returned,             \* <<n>> once perform_all_checks returned n
    first                 \* <<outcome>> of the call made before this one

inputs == <<tree, src_tree, policies, library_linkage, crt_linkage,
            target_architecture, platform_toolset, build_type,
            cmake_system_name, dumpbin, win32>>

vars == <<tree, src_tree, policies, library_linkage, crt_linkage,
          target_architecture, platform_toolset, build_type,
          cmake_system_name, dumpbin, win32,
          pc, error_count, verdicts, log, invocations, returned, first>>

----------------------------------------------------------------------------
(* The candidate files of a package, in the order the directory iteration  *)
(* lists them.  A path is the sequence of its components below             *)
(* package_dir.                                                            *)

Entry(id, path, ext, is_dir) ==
    [id |-> id, path |-> path, ext |-> ext, is_dir |-> is_dir]

Listing == <<
    Entry("CONTROL",                 <<"CONTROL">>,                      "",       FALSE),
    Entry("stray.txt",               <<"stray.txt">>,                    ".txt",   FALSE),
    Entry("bin/",                    <<"bin">>,                          "",       TRUE),
    Entry("bin/a.exe",               <<"bin", "a.exe">>,                 ".exe",   FALSE),
    Entry("bin/bad_deps.dll",        <<"bin", "bad_deps.dll">>,          ".dll",   FALSE),
    Entry("bin/bad_exports.dll",     <<"bin", "bad_exports.dll">>,       ".dll",   FALSE),
    Entry("bin/bad_headers.dll",     <<"bin", "bad_headers.dll">>,       ".dll",   FALSE),
    Entry("bin/crt100.dll",          <<"bin", "crt100.dll">>,            ".dll",   FALSE),
    Entry("bin/crt120.dll",          <<"bin", "crt120.dll">>,            ".dll",   FALSE),
    Entry("bin/noexp.dll",           <<"bin", "noexp.dll">>,             ".dll",   FALSE),
    Entry("bin/ok.dll",              <<"bin", "ok.dll">>,                ".dll",   FALSE),
    Entry("bin/uwp.dll",             <<"bin", "uwp.dll">>,               ".dll",   FALSE),
    Entry("bin/x86.dll",             <<"bin", "x86.dll">>,               ".dll",   FALSE),
    Entry("cmake/a.cmake",           <<"cmake", "a.cmake">>,             ".cmake", FALSE),
    Entry("debug/stray.txt",         <<"debug", "stray.txt">>,           ".txt",   FALSE),
    Entry("debug/bin/a.exe",         <<"debug", "bin", "a.exe">>,        ".exe",   FALSE),
    Entry("debug/bin/crt100.dll",    <<"debug", "bin", "crt100.dll">>,   ".dll",   FALSE),
    Entry("debug/bin/ok.dll",        <<"debug", "bin", "ok.dll">>,       ".dll",   FALSE),
    Entry("debug/include/a.h",       <<"debug", "include", "a.h">>,      ".h",     FALSE),
    Entry("debug/include/a.ifc",     <<"debug", "include", "a.ifc">>,    ".ifc",   FALSE),
    Entry("debug/lib/a.dll",         <<"debug", "lib", "a.dll">>,        ".dll",   FALSE),
    Entry("debug/lib/cmake/a.cmake", <<"debug", "lib", "cmake", "a.cmake">>, ".cmake", FALSE),
    Entry("debug/lib/multi.lib",     <<"debug", "lib", "multi.lib">>,    ".lib",   FALSE),
    Entry("debug/lib/none.lib",      <<"debug", "lib", "none.lib">>,     ".lib",   FALSE),
    Entry("debug/lib/ok.lib",        <<"debug", "lib", "ok.lib">>,       ".lib",   FALSE),
    Entry("debug/lib/rel.lib",       <<"debug", "lib", "rel.lib">>,      ".lib",   FALSE),
    Entry("debug/share/a.txt",       <<"debug", "share", "a.txt">>,      ".txt",   FALSE),
    Entry("include/",                <<"include">>,                      "",       TRUE),
    Entry("include/a.h",             <<"include", "a.h">>,               ".h",     FALSE),
    Entry("lib/a.dll",               <<"lib", "a.dll">>,                 ".dll",   FALSE),
    Entry("lib/bad.lib",             <<"lib", "bad.lib">>,               ".lib",   FALSE),
    Entry("lib/cmake/a.cmake",       <<"lib", "cmake", "a.cmake">>,      ".cmake", FALSE),
    Entry("lib/mtd.lib",             <<"lib", "mtd.lib">>,               ".lib",   FALSE),
    Entry("lib/multi.lib",           <<"lib", "multi.lib">>,             ".lib",   FALSE),
    Entry("lib/nocrt.lib",           <<"lib", "nocrt.lib">>,             ".lib",   FALSE),
    Entry("lib/none.lib",            <<"lib", "none.lib">>,              ".lib",   FALSE),
    Entry("lib/ok.lib",              <<"lib", "ok.lib">>,                ".lib",   FALSE),
    Entry("lib/x86.lib",             <<"lib", "x86.lib">>,               ".lib",   FALSE),
    Entry("share/pkg/copyright",     <<"share", "pkg", "copyright">>,    "",       FALSE) >>

FileIds == {Listing[i].id : i \in 1..Len(Listing)}

EntryOf == [f \in FileIds |-> Listing[CHOOSE i \in 1..Len(Listing) : Listing[i].id = f]]

\* The files in the roots of the unpacked source archives
\* (buildtrees/<name>/src/<archive>/<file>), by file name.
SrcListing == << "COPYING", "LICENSE" >>

SrcIds == {SrcListing[i] : i \in 1..Len(SrcListing)}

\* The base package: one header and the copyright file.
BaseTree == {"include/a.h", "share/pkg/copyright"}

----------------------------------------------------------------------------
(* Files::Filesystem over the package tree.                                *)

IsPrefix(p, q) == Len(p) <= Len(q) /\ SubSeq(q, 1, Len(p)) = p

Below(dir, f) == Len(dir) < Len(EntryOf[f].path) /\ IsPrefix(dir, EntryOf[f].path)

exists(t, path) == \E f \in t : IsPrefix(path, EntryOf[f].path)

is_directory(t, f) == EntryOf[f].is_dir

\* Whether the directory at path has nothing below it.
is_empty(t, path) == ~ \E g \in t : Below(path, g)

get_files_recursive(t, dir) ==
    SelectSeq([i \in 1..Len(Listing) |-> Listing[i].id],
              LAMBDA f : f \in t /\ Below(dir, f))

get_files_non_recursive(t, dir) ==
    SelectSeq([i \in 1..Len(Listing) |-> Listing[i].id],
              LAMBDA f : f \in t /\ Below(dir, f) /\ Len(EntryOf[f].path) = Len(dir) + 1)

has_extension_pred(t, ext, f) == ~is_directory(t, f) /\ EntryOf[f].ext = ext

----------------------------------------------------------------------------
(* The binary artifacts' metadata: what CoffFileReader reads from a file   *)
(* and what the external tool (dumpbin) reports about it.  The tool's      *)
(* report is the set of the tokens a check searches for.                   *)

\* CoffFileReader::read_lib(file).machine_types
LibMachineTypes(f) ==
    CASE f \in {"lib/none.lib", "debug/lib/none.lib"}   -> << >>
      [] f \in {"lib/multi.lib", "debug/lib/multi.lib"} -> << "AMD64", "I386" >>
      [] f = "lib/x86.lib"                              -> << "I386" >>
      [] OTHER                                          -> << "AMD64" >>

read_lib(f) == [machine_types |-> LibMachineTypes(f)]

\* CoffFileReader::read_dll(file).machine_type
read_dll(f) == [machine_type |-> IF f = "bin/x86.dll" THEN "I386" ELSE "AMD64"]

\* The /DEFAULTLIB directives of a static library.
Directives(f) ==
    CASE f = "lib/nocrt.lib"      -> {}
      [] f = "lib/mtd.lib"        -> {"/DEFAULTLIB:MSVCRT", "/DEFAULTLIB:LIBCMTD"}
      [] f = "debug/lib/rel.lib"  -> {"/DEFAULTLIB:MSVCRT"}
      [] EntryOf[f].path[1] = "debug" -> {"/DEFAULTLIB:MSVCRTD"}
      [] OTHER                    -> {"/DEFAULTLIB:MSVCRT"}

\* The modules a dynamic module depends on, as the tool prints them.
Dependents(f) ==
    CASE f = "bin/crt100.dll"       -> {"KERNEL32.dll", "MSVCR100.dll"}
      [] f = "debug/bin/crt100.dll" -> {"KERNEL32.dll", "MSVCR100D.dll"}
      [] f = "bin/crt120.dll"       -> {"KERNEL32.dll", "MSVCR120.dll"}
      [] OTHER                      -> {"KERNEL32.dll", "VCRUNTIME140.dll"}

\* The inspection mode in which the tool fails on a file ("" for none).
FailingMode(f) ==
    CASE f = "bin/bad_exports.dll" -> "/exports"
      [] f = "bin/bad_headers.dll" -> "/headers"
      [] f = "bin/bad_deps.dll"    -> "/dependents"
      [] f = "lib/bad.lib"         -> "/directives"
      [] OTHER                     -> ""

\* System::cmd_execute_and_capture_output of "<dumpbin> <mode> <file>"
cmd_execute_and_capture_output(mode, f) ==
    IF FailingMode(f) = mode
    THEN [exit_code |-> 1, output |-> {}]
    ELSE [exit_code |-> 0,
          output |-> CASE mode = "/exports" ->
                            IF f = "bin/noexp.dll" THEN {}
                            ELSE {"ordinal hint RVA      name"}
                       [] mode = "/headers" ->
                            IF f = "bin/uwp.dll" THEN {"App Container"} ELSE {}
                       [] mode = "/dependents" -> Dependents(f)
                       [] OTHER -> Directives(f)]

\* A call the package validation makes on a binary: a run of the tool in a
\* mode, or a read of the file's COFF headers ("read_lib", "read_dll").
cmd_line(mode, f) == [mode |-> mode, file |-> f]

----------------------------------------------------------------------------
(* The diagnostics and the result of a check.                              *)

Diag(color, msg, files, info) ==
    [color |-> color, msg |-> msg, files |-> files, info |-> info]

Warning(msg) == Diag("warning", msg, << >>, << >>)

Plain(msg) == Diag("", msg, << >>, << >>)

\* Files::print_paths
print_paths(files) == Diag("", "paths", files, << >>)

\* A check that returned status after printing out and making the calls.
Returns(status, out, calls) ==
    [status |-> status, exited |-> FALSE, out |-> out, calls |-> calls]

\* A check in which Checks::check_exit ended the process.
Exits(msg, out, calls) ==
    [status |-> "", exited |-> TRUE,
     out |-> Append(out, Diag("error", msg, << >>, << >>)), calls |-> calls]

\* enum class LintStatus { SUCCESS = 0, ERROR_DETECTED = 1 }
LintStatusValue(status) == IF status = "ERROR_DETECTED" THEN 1 ELSE 0

\* A slip in operator+=: every check counts, whatever it returned.
operator_plus_eq_counting_every_check(left, right) == left + 1

\* operator+=(size_t& left, const LintStatus& right)
operator_plus_eq(left, right) == left + LintStatusValue(right)

\* The ASCII lower case of the names that occur in the model.
ToLower(name) ==
    CASE name = "CONTROL"          -> "control"
      [] name = "BUILD_INFO"       -> "build_info"
      [] name = "KERNEL32.dll"     -> "kernel32.dll"
      [] name = "VCRUNTIME140.dll" -> "vcruntime140.dll"
      [] name = "MSVCR100.dll"     -> "msvcr100.dll"
      [] name = "MSVCR100D.dll"    -> "msvcr100d.dll"
      [] name = "MSVCR120.dll"     -> "msvcr120.dll"
      [] OTHER                     -> name

\* Strings::case_insensitive_ascii_equals
case_insensitive_ascii_equals(left, right) == ToLower(left) = ToLower(right)

\* path.filename()
filename(f) == EntryOf[f].path[Len(EntryOf[f].path)]

\* The members a sequence lists.
Range(s) == {s[i] : i \in 1..Len(s)}

\* Util::unstable_keep_if, the predicate given as the set of the files it
\* holds of.
unstable_keep_if(s, keep) == SelectSeq(s, LAMBDA f : f \in keep)

----------------------------------------------------------------------------
(* The checks that look at the tree alone.  t is the package tree, pol the *)
(* policy registry.                                                        *)

\* A slip in the test of the policy: the check is made when the policy is
\* enabled and left out when it is not.
check_for_files_in_include_directory_negating_policy(t, pol) ==
    IF ~pol["EMPTY_INCLUDE_FOLDER"]
    THEN Returns("SUCCESS", << >>, << >>)
    ELSE IF ~exists(t, <<"include">>) \/ is_empty(t, <<"include">>)
    THEN Returns("ERROR_DETECTED",
                 << Warning("The folder /include is empty or not present.") >>, << >>)
    ELSE Returns("SUCCESS", << >>, << >>)

check_for_files_in_include_directory(t, pol) ==
    IF pol["EMPTY_INCLUDE_FOLDER"]
    THEN Returns("SUCCESS", << >>, << >>)
    ELSE IF ~exists(t, <<"include">>) \/ is_empty(t, <<"include">>)
    THEN Returns("ERROR_DETECTED",
                 << Warning("The folder /include is empty or not present.") >>, << >>)
    ELSE Returns("SUCCESS", << >>, << >>)

check_for_files_in_debug_include_directory(t) ==
    LET files_found ==
            unstable_keep_if(get_files_recursive(t, <<"debug", "include">>),
                             {f \in FileIds : ~is_directory(t, f) /\ EntryOf[f].ext # ".ifc"})
    IN  IF files_found # << >>
        THEN Returns("ERROR_DETECTED",
                     << Warning("Include files should not be duplicated into the /debug/include directory.") >>,
                     << >>)
        ELSE Returns("SUCCESS", << >>, << >>)

check_for_files_in_debug_share_directory(t) ==
    IF exists(t, <<"debug", "share">>)
    THEN Returns("ERROR_DETECTED", << Warning("/debug/share should not exist.") >>, << >>)
    ELSE Returns("SUCCESS", << >>, << >>)

check_folder_lib_cmake(t) ==
    IF exists(t, <<"lib", "cmake">>)
    THEN Returns("ERROR_DETECTED",
                 << Warning("The /lib/cmake folder should be merged with /debug/lib/cmake and moved to /share/pkg/cmake.") >>,
                 << >>)
    ELSE Returns("SUCCESS", << >>, << >>)

check_for_misplaced_cmake_files(t) ==
    LET IsCmake(f) == ~is_directory(t, f) /\ EntryOf[f].ext = ".cmake"
        misplaced_cmake_files ==
            SelectSeq(get_files_recursive(t, <<"cmake">>), IsCmake)
            \o SelectSeq(get_files_recursive(t, <<"debug", "cmake">>), IsCmake)
            \o SelectSeq(get_files_recursive(t, <<"lib", "cmake">>), IsCmake)
            \o SelectSeq(get_files_recursive(t, <<"debug", "lib", "cmake">>), IsCmake)
    IN  IF misplaced_cmake_files # << >>
        THEN Returns("ERROR_DETECTED",
                     << Warning("The following cmake files were found outside /share/pkg."),
                        print_paths(misplaced_cmake_files) >>,
                     << >>)
        ELSE Returns("SUCCESS", << >>, << >>)

check_folder_debug_lib_cmake(t) ==
    IF exists(t, <<"debug", "lib", "cmake">>)
    THEN Returns("ERROR_DETECTED",
                 << Warning("The /debug/lib/cmake folder should be merged with /lib/cmake into /share/pkg") >>,
                 << >>)
    ELSE Returns("SUCCESS", << >>, << >>)

\* dir is package_dir (<< >>) or package_dir / "debug".
check_for_dlls_in_lib_dir(t, dir) ==
    LET dlls == unstable_keep_if(get_files_recursive(t, dir \o <<"lib">>),
                                 {f \in FileIds : has_extension_pred(t, ".dll", f)})
    IN  IF dlls # << >>
        THEN Returns("ERROR_DETECTED",
                     << Warning("The following dlls were found in /lib or /debug/lib."),
                        print_paths(dlls) >>,
                     << >>)
        ELSE Returns("SUCCESS", << >>, << >>)

\* src is the set of files in the roots of the unpacked sources.
check_for_copyright_file(t, src) ==
    IF exists(t, <<"share", "pkg", "copyright">>)
    THEN Returns("SUCCESS", << >>, << >>)
    ELSE LET potential_copyright_files ==
                 SelectSeq(SrcListing,
                           LAMBDA n : n \in src /\ n \in {"LICENSE", "LICENSE.txt", "COPYING"})
             must == Warning("The software license must be available at ${CURRENT_PACKAGES_DIR}/share/pkg/copyright")
         IN  IF Len(potential_copyright_files) = 1
             THEN Returns("ERROR_DETECTED",
                          << must,
                             Diag("", "file(COPY ...) file(RENAME ...)", potential_copyright_files, << >>) >>,
                          << >>)
             ELSE IF Len(potential_copyright_files) > 1
             THEN Returns("ERROR_DETECTED",
                          << must,
                             Warning("The following files are potential copyright files:"),
                             print_paths(potential_copyright_files) >>,
                          << >>)
             ELSE Returns("ERROR_DETECTED", << must >>, << >>)

check_for_exes(t, dir) ==
    LET exes == unstable_keep_if(get_files_recursive(t, dir \o <<"bin">>),
                                 {f \in FileIds : has_extension_pred(t, ".exe", f)})
    IN  IF exes # << >>
        THEN Returns("ERROR_DETECTED",
                     << Warning("The following EXEs were found in /bin or /debug/bin."),
                        print_paths(exes) >>,
                     << >>)
        ELSE Returns("SUCCESS", << >>, << >>)

\* A slip in check_no_dlls_present: the test for an empty list is inverted.
check_no_dlls_present_inverted(dlls) ==
    IF dlls # << >>
    THEN Returns("SUCCESS", << >>, << >>)
    ELSE Returns("ERROR_DETECTED",
                 << Warning("DLLs should not be present in a static build, but the following DLLs were found:"),
                    print_paths(dlls) >>,
                 << >>)

check_no_dlls_present(dlls) ==
    IF dlls = << >>
    THEN Returns("SUCCESS", << >>, << >>)
    ELSE Returns("ERROR_DETECTED",
                 << Warning("DLLs should not be present in a static build, but the following DLLs were found:"),
                    print_paths(dlls) >>,
                 << >>)

\* A slip in the comparison of the counts: fewer debug binaries than
\* release binaries pass.
check_matching_debug_and_release_binaries_at_most(debug_binaries, release_binaries) ==
    LET debug_count == Len(debug_binaries)
        release_count == Len(release_binaries)
    IN  IF debug_count <= release_count
        THEN Returns("SUCCESS", << >>, << >>)
        ELSE Returns("ERROR_DETECTED",
                     << Diag("warning", "Mismatching number of debug and release binaries.",
                             << >>, << ToString(debug_count), ToString(release_count) >>),
                        Plain("Debug binaries"), print_paths(debug_binaries),
                        Plain("Release binaries"), print_paths(release_binaries) >>
                     \o (IF debug_count = 0
                         THEN << Warning("Debug binaries were not found") >> ELSE << >>)
                     \o (IF release_count = 0
                         THEN << Warning("Release binaries were not found") >> ELSE << >>),
                     << >>)

check_matching_debug_and_release_binaries(debug_binaries, release_binaries) ==
    LET debug_count == Len(debug_binaries)
        release_count == Len(release_binaries)
    IN  IF debug_count = release_count
        THEN Returns("SUCCESS", << >>, << >>)
        ELSE Returns("ERROR_DETECTED",
                     << Diag("warning", "Mismatching number of debug and release binaries.",
                             << >>, << ToString(debug_count), ToString(release_count) >>),
                        Plain("Debug binaries"), print_paths(debug_binaries),
                        Plain("Release binaries"), print_paths(release_binaries) >>
                     \o (IF debug_count = 0
                         THEN << Warning("Debug binaries were not found") >> ELSE << >>)
                     \o (IF release_count = 0
                         THEN << Warning("Release binaries were not found") >> ELSE << >>),
                     << >>)

check_lib_files_are_available_if_dlls_are_available(pol, lib_count, dll_count, lib_dir) ==
    IF pol["DLLS_WITHOUT_LIBS"]
    THEN Returns("SUCCESS", << >>, << >>)
    ELSE IF lib_count = 0 /\ dll_count # 0
    THEN Returns("ERROR_DETECTED",
                 << Diag("warning", "Import libs were not present in", << lib_dir >>, << >>),
                    Warning("If this is intended, add the following line in the portfile: SET(VCPKG_POLICY_DLLS_WITHOUT_LIBS enabled)") >>,
                 << >>)
    ELSE Returns("SUCCESS", << >>, << >>)

\* A slip in the check of the bin folders: debug/bin is not looked at.
check_bin_folders_are_not_present_in_static_build_release_only(t) ==
    IF ~exists(t, <<"bin">>)
    THEN Returns("SUCCESS", << >>, << >>)
    ELSE Returns("ERROR_DETECTED",
                 << Diag("warning", "There should be no bin\\ directory in a static build",
                         <<"bin">>, << >>),
                    Warning("If the creation of bin\\ and/or debug\\bin\\ cannot be disabled, use this in the portfile to remove them") >>,
                 << >>)

check_bin_folders_are_not_present_in_static_build(t) ==
    IF ~exists(t, <<"bin">>) /\ ~exists(t, <<"debug", "bin">>)
    THEN Returns("SUCCESS", << >>, << >>)
    ELSE Returns("ERROR_DETECTED",
                 (IF exists(t, <<"bin">>)
                  THEN << Diag("warning", "There should be no bin\\ directory in a static build",
                               <<"bin">>, << >>) >>
                  ELSE << >>)
                 \o (IF exists(t, <<"debug", "bin">>)
                     THEN << Diag("warning", "There should be no debug\\bin\\ directory in a static build",
                                  <<"debug/bin">>, << >>) >>
                     ELSE << >>)
                 \o << Warning("If the creation of bin\\ and/or debug\\bin\\ cannot be disabled, use this in the portfile to remove them") >>,
                 << >>)

check_no_empty_folders(t, dir) ==
    LET empty_directories ==
            unstable_keep_if(get_files_recursive(t, dir),
                             {f \in FileIds : is_directory(t, f) /\ is_empty(t, EntryOf[f].path)})
    IN  IF empty_directories # << >>
        THEN Returns("ERROR_DETECTED",
                     << Warning("There should be no empty directories in"),
                        Diag("", "The following empty directories were found: ", empty_directories, << >>),
                        Warning("If a directory should be populated but is not, this might indicate an error in the portfile.") >>,
                     << >>)
        ELSE Returns("SUCCESS", << >>, << >>)

\* A slip in the filter: CONTROL and BUILD_INFO are not exempted.
check_no_files_in_dir_without_exemption(t, dir) ==
    LET misplaced_files ==
            unstable_keep_if(get_files_non_recursive(t, dir),
                {f \in FileIds : ~is_directory(t, f)})
    IN  IF misplaced_files # << >>
        THEN Returns("ERROR_DETECTED",
                     << Warning("The following files are placed in"),
                        print_paths(misplaced_files),
                        Warning("Files cannot be present in those directories.") >>,
                     << >>)
        ELSE Returns("SUCCESS", << >>, << >>)

check_no_files_in_dir(t, dir) ==
    LET misplaced_files ==
            unstable_keep_if(get_files_non_recursive(t, dir),
                {f \in FileIds :
                    IF \/ case_insensitive_ascii_equals(filename(f), "CONTROL")
                       \/ case_insensitive_ascii_equals(filename(f), "BUILD_INFO")
                    THEN FALSE
                    ELSE ~is_directory(t, f)})
    IN  IF misplaced_files # << >>
        THEN Returns("ERROR_DETECTED",
                     << Warning("The following files are placed in"),
                        print_paths(misplaced_files),
                        Warning("Files cannot be present in those directories.") >>,
                     << >>)
        ELSE Returns("SUCCESS", << >>, << >>)

----------------------------------------------------------------------------
(* The checks that read the binary artifacts.                              *)

\* get_actual_architecture(machine_type)
get_actual_architecture(machine_type) ==
    CASE machine_type \in {"AMD64", "IA64"} -> "x64"
      [] machine_type = "I386"              -> "x86"
      [] machine_type \in {"ARM", "ARMNT"}  -> "arm"
      [] machine_type = "ARM64"             -> "arm64"
      [] OTHER                              -> "Machine Type Code"

\* print_invalid_architecture_files
print_invalid_architecture_files(expected_architecture, binaries) ==
    << Warning("The following files were built for an incorrect architecture:") >>
    \o [i \in 1..Len(binaries) |->
          Diag("", "Expected %s, but was: %s", << binaries[i].file >>,
               << expected_architecture, binaries[i].actual_arch >>)]

RECURSIVE dll_architecture_loop(_, _, _, _, _)
dll_architecture_loop(expected_architecture, files, i, invalid, calls) ==
    IF i > Len(files)
    THEN IF invalid # << >>
         THEN Returns("ERROR_DETECTED",
                      print_invalid_architecture_files(expected_architecture, invalid), calls)
         ELSE Returns("SUCCESS", << >>, calls)
    ELSE IF EntryOf[files[i]].ext # ".dll"
    THEN Exits("The file extension was not .dll", << >>, calls)
    ELSE LET made == Append(calls, cmd_line("read_dll", files[i]))
             actual_architecture == get_actual_architecture(read_dll(files[i]).machine_type)
         IN  dll_architecture_loop(expected_architecture, files, i + 1,
                 IF expected_architecture # actual_architecture
                 THEN Append(invalid, [file |-> files[i], actual_arch |-> actual_architecture])
                 ELSE invalid,
                 made)

check_dll_architecture(expected_architecture, files) ==
    dll_architecture_loop(expected_architecture, files, 1, << >>, << >>)

RECURSIVE lib_architecture_loop(_, _, _, _, _)
lib_architecture_loop(expected_architecture, files, i, invalid, calls) ==
    IF i > Len(files)
    THEN IF invalid # << >>
         THEN Returns("ERROR_DETECTED",
                      print_invalid_architecture_files(expected_architecture, invalid), calls)
         ELSE Returns("SUCCESS", << >>, calls)
    ELSE IF EntryOf[files[i]].ext # ".lib"
    THEN Exits("The file extension was not .lib", << >>, calls)
    ELSE LET info == read_lib(files[i])
             made == Append(calls, cmd_line("read_lib", files[i]))
         IN  IF Len(info.machine_types) = 0
             THEN Returns("SUCCESS", << >>, made)
             ELSE IF Len(info.machine_types) # 1
             THEN Exits("Found more than 1 architecture in file", << >>, made)
             ELSE LET actual_architecture == get_actual_architecture(info.machine_types[1])
                  IN  lib_architecture_loop(expected_architecture, files, i + 1,
                          IF expected_architecture # actual_architecture
                          THEN Append(invalid, [file |-> files[i], actual_arch |-> actual_architecture])
                          ELSE invalid,
                          made)

\* is_win32: whether the body under #if defined(_WIN32) is compiled in.
check_lib_architecture(is_win32, expected_architecture, files) ==
    IF is_win32
    THEN lib_architecture_loop(expected_architecture, files, 1, << >>, << >>)
    ELSE Returns("SUCCESS", << >>, << >>)

RECURSIVE exports_loop(_, _, _, _)
exports_loop(dlls, i, dlls_with_no_exports, calls) ==
    IF i > Len(dlls)
    THEN IF dlls_with_no_exports # << >>
         THEN Returns("ERROR_DETECTED",
                      << Warning("The following DLLs have no exports:"),
                         print_paths(dlls_with_no_exports),
                         Warning("DLLs without any exports are likely a bug in the build script.") >>,
                      calls)
         ELSE Returns("SUCCESS", << >>, calls)
    ELSE LET ec_data == cmd_execute_and_capture_output("/exports", dlls[i])
             made == Append(calls, cmd_line("/exports", dlls[i]))
         IN  IF ec_data.exit_code # 0
             THEN Exits("Running command failed", << >>, made)
             ELSE exports_loop(dlls, i + 1,
                      IF "ordinal hint RVA      name" \notin ec_data.output
                      THEN Append(dlls_with_no_exports, dlls[i])
                      ELSE dlls_with_no_exports,
                      made)

check_exports_of_dlls(dlls) == exports_loop(dlls, 1, << >>, << >>)

RECURSIVE uwp_loop(_, _, _, _)
uwp_loop(dlls, i, dlls_with_improper_uwp_bit, calls) ==
    IF i > Len(dlls)
    THEN IF dlls_with_improper_uwp_bit # << >>
         THEN Returns("ERROR_DETECTED",
                      << Warning("The following DLLs do not have the App Container bit set:"),
                         print_paths(dlls_with_improper_uwp_bit),
                         Warning("This bit is required for Windows Store apps.") >>,
                      calls)
         ELSE Returns("SUCCESS", << >>, calls)
    ELSE LET ec_data == cmd_execute_and_capture_output("/headers", dlls[i])
             made == Append(calls, cmd_line("/headers", dlls[i]))
         IN  IF ec_data.exit_code # 0
             THEN Exits("Running command failed", << >>, made)
             ELSE uwp_loop(dlls, i + 1,
                      IF "App Container" \notin ec_data.output
                      THEN Append(dlls_with_improper_uwp_bit, dlls[i])
                      ELSE dlls_with_improper_uwp_bit,
                      made)

check_uwp_bit_of_dlls(expected_system_name, dlls) ==
    IF expected_system_name # "WindowsStore"
    THEN Returns("SUCCESS", << >>, << >>)
    ELSE uwp_loop(dlls, 1, << >>, << >>)

\* BuildType (postbuildlint.buildtype.h): a configuration and a CRT linkage.
BuildType(config, linkage) == [config |-> config, linkage |-> linkage]

\* BuildTypeC::VALUES
BuildTypeC_VALUES ==
    << BuildType("DEBUG", "STATIC"), BuildType("DEBUG", "DYNAMIC"),
       BuildType("RELEASE", "STATIC"), BuildType("RELEASE", "DYNAMIC") >>

\* BuildType::value_of
value_of(config, linkage) == BuildType(config, linkage)

\* The directive BuildType::crt_regex() finds.
crt_regex(bt) ==
    CASE bt = BuildType("DEBUG", "STATIC")     -> "/DEFAULTLIB:LIBCMTD"
      [] bt = BuildType("DEBUG", "DYNAMIC")    -> "/DEFAULTLIB:MSVCRTD"
      [] bt = BuildType("RELEASE", "STATIC")   -> "/DEFAULTLIB:LIBCMT"
      [] bt = BuildType("RELEASE", "DYNAMIC")  -> "/DEFAULTLIB:MSVCRT"

\* BuildType::to_string
to_string(bt) == IF bt.config = "DEBUG"
                 THEN (IF bt.linkage = "STATIC" THEN "Debug,Static" ELSE "Debug,Dynamic")
                 ELSE (IF bt.linkage = "STATIC" THEN "Release,Static" ELSE "Release,Dynamic")

\* A slip in the loop over the bad build types: only the first is tried.
first_bad_build_type_trying_one(output, bad_build_types) ==
    IF bad_build_types # << >> /\ crt_regex(bad_build_types[1]) \in output
    THEN << bad_build_types[1] >>
    ELSE << >>

\* The first of the bad build types whose directive the output holds, as a
\* sequence of at most one.
first_bad_build_type(output, bad_build_types) ==
    LET hits == SelectSeq(bad_build_types, LAMBDA bt : crt_regex(bt) \in output)
    IN  IF hits = << >> THEN << >> ELSE << hits[1] >>

RECURSIVE crt_linkage_loop(_, _, _, _, _)
crt_linkage_loop(expected_build_type, libs, i, libs_with_invalid_crt, calls) ==
    IF i > Len(libs)
    THEN IF libs_with_invalid_crt # << >>
         THEN Returns("ERROR_DETECTED",
                      << Diag("warning", "Expected %s crt linkage, but the following libs had invalid crt linkage:",
                              << >>, << to_string(expected_build_type) >>) >>
                      \o [k \in 1..Len(libs_with_invalid_crt) |->
                            Diag("", "%s: %s", << libs_with_invalid_crt[k].file >>,
                                 << to_string(libs_with_invalid_crt[k].build_type) >>)]
                      \o << Warning("To inspect the lib files, use: dumpbin.exe /directives mylibfile.lib") >>,
                      calls)
         ELSE Returns("SUCCESS", << >>, calls)
    ELSE LET ec_data == cmd_execute_and_capture_output("/directives", libs[i])
             made == Append(calls, cmd_line("/directives", libs[i]))
             bad == first_bad_build_type(ec_data.output,
                        SelectSeq(BuildTypeC_VALUES, LAMBDA bt : bt # expected_build_type))
         IN  IF ec_data.exit_code # 0
             THEN Exits("Running command failed with message", << >>, made)
             ELSE crt_linkage_loop(expected_build_type, libs, i + 1,
                      IF bad # << >>
                      THEN Append(libs_with_invalid_crt, [file |-> libs[i], build_type |-> bad[1]])
                      ELSE libs_with_invalid_crt,
                      made)

check_crt_linkage_of_libs(expected_build_type, libs) ==
    crt_linkage_loop(expected_build_type, libs, 1, << >>, << >>)

\* The names of the runtimes V_NO_120 lists (msvcp60.dll is listed twice).
V_NO_120 ==
    << "msvcp100.dll", "msvcp100d.dll", "msvcp110.dll", "msvcp110_win.dll",
       "msvcp60.dll", "msvcp60.dll",
       "msvcrt.dll", "msvcr100.dll", "msvcr100d.dll", "msvcr100_clr0400.dll",
       "msvcr110.dll", "msvcrt20.dll", "msvcrt40.dll" >>

V_NO_MSVCRT ==
    V_NO_120 \o << "msvcp120.dll", "msvcp120_clr0400.dll",
                   "msvcr120.dll", "msvcr120_clr0400.dll" >>

\* A slip in the test of the toolset version: the version is not looked at
\* and every toolset gets the longer list.
get_outdated_dynamic_crts_ignoring_version(toolset_version) == V_NO_MSVCRT

\* A slip in the test of the toolset version: an absent version is taken
\* for "v120".
get_outdated_dynamic_crts_absent_as_v120(toolset_version) ==
    IF toolset_version = << >> \/ toolset_version[1] = "v120"
    THEN V_NO_120
    ELSE V_NO_MSVCRT

\* toolset_version is << >> (absent) or << v >>.
get_outdated_dynamic_crts(toolset_version) ==
    IF toolset_version # << >> /\ toolset_version[1] = "v120"
    THEN V_NO_120
    ELSE V_NO_MSVCRT

\* std::regex_search of an OutdatedDynamicCrt's pattern (its name, matched
\* case-insensitively) in the tool's output.
regex_search_icase(output, name) == \E token \in output : ToLower(token) = name

first_outdated_crt(output, outdated_crts) ==
    LET hits == SelectSeq(outdated_crts, LAMBDA name : regex_search_icase(output, name))
    IN  IF hits = << >> THEN << >> ELSE << hits[1] >>

RECURSIVE outdated_crt_loop(_, _, _, _, _)
outdated_crt_loop(dlls, toolset_version, i, dlls_with_outdated_crt, calls) ==
    IF i > Len(dlls)
    THEN IF dlls_with_outdated_crt # << >>
         THEN Returns("ERROR_DETECTED",
                      << Warning("Detected outdated dynamic CRT in the following files:") >>
                      \o [k \in 1..Len(dlls_with_outdated_crt) |->
                            Diag("", "%s: %s", << dlls_with_outdated_crt[k].file >>,
                                 << dlls_with_outdated_crt[k].outdated_crt >>)]
                      \o << Warning("To inspect the dll files, use: dumpbin.exe /dependents mydllfile.dll") >>,
                      calls)
         ELSE Returns("SUCCESS", << >>, calls)
    ELSE LET ec_data == cmd_execute_and_capture_output("/dependents", dlls[i])
             made == Append(calls, cmd_line("/dependents", dlls[i]))
             hit == first_outdated_crt(ec_data.output, get_outdated_dynamic_crts(toolset_version))
         IN  IF ec_data.exit_code # 0
             THEN Exits("Running command failed", << >>, made)
             ELSE outdated_crt_loop(dlls, toolset_version, i + 1,
                      IF hit # << >>
                      THEN Append(dlls_with_outdated_crt, [file |-> dlls[i], outdated_crt |-> hit[1]])
                      ELSE dlls_with_outdated_crt,
                      made)

check_outdated_crt_linkage_of_dlls(dlls, pol, toolset_version) ==
    IF pol["ALLOW_OBSOLETE_MSVCRT"]
    THEN Returns("SUCCESS", << >>, << >>)
    ELSE outdated_crt_loop(dlls, toolset_version, 1, << >>, << >>)

----------------------------------------------------------------------------
(* perform_all_checks_and_return_error_count and perform_all_checks.       *)

BuildPolicy ==
    {"EMPTY_PACKAGE", "DLLS_WITHOUT_LIBS", "ONLY_RELEASE_CRT",
     "EMPTY_INCLUDE_FOLDER", "ALLOW_OBSOLETE_MSVCRT"}

\* The lists the orchestrator collects (lines 766-769 and 782-785).
debug_libs(t) ==
    unstable_keep_if(get_files_recursive(t, <<"debug", "lib">>),
                     {f \in FileIds : has_extension_pred(t, ".lib", f)})

release_libs(t) ==
    unstable_keep_if(get_files_recursive(t, <<"lib">>),
                     {f \in FileIds : has_extension_pred(t, ".lib", f)})

debug_dlls(t) ==
    unstable_keep_if(get_files_recursive(t, <<"debug", "bin">>),
                     {f \in FileIds : has_extension_pred(t, ".dll", f)})

release_dlls(t) ==
    unstable_keep_if(get_files_recursive(t, <<"bin">>),
                     {f \in FileIds : has_extension_pred(t, ".dll", f)})

\* The check the call makes after the opening checks that every package
\* gets (line 771).
AfterExes == IF build_type = << >> THEN "matching_libs" ELSE "lib_architecture"

\* A slip at line 791: the modules are counted whether or not the build
\* declares a build type.
DynamicEntry_ignoring_build_type == "matching_dlls"

\* The first check of the DYNAMIC case (line 791).
DynamicEntry == IF build_type = << >> THEN "matching_dlls" ELSE "lib_files_debug"

\* The check after the import-library checks (lines 803 and 811).
AfterLibFiles ==
    IF dumpbin # << >> THEN "exports"
    ELSE IF win32 THEN "dll_architecture" ELSE "empty_folders"

\* The check after the bin-folder check of the STATIC case (lines 824-826).
AfterBinFolders ==
    IF dumpbin # << >>
    THEN (IF ~policies["ONLY_RELEASE_CRT"] THEN "crt_debug" ELSE "crt_release")
    ELSE "empty_folders"

\* The check the call makes after the one at site returned.
Successor(site) ==
    CASE site = "include"           -> "debug_include"
      [] site = "debug_include"     -> "debug_share"
      [] site = "debug_share"       -> "lib_cmake"
      [] site = "lib_cmake"         -> "misplaced_cmake"
      [] site = "misplaced_cmake"   -> "debug_lib_cmake"
      [] site = "debug_lib_cmake"   -> "dlls_in_lib"
      [] site = "dlls_in_lib"       -> "dlls_in_debug_lib"
      [] site = "dlls_in_debug_lib" -> "copyright"
      [] site = "copyright"         -> "exes"
      [] site = "exes"              -> "exes_debug"
      [] site = "exes_debug"        -> AfterExes
      [] site = "matching_libs"     -> "lib_architecture"
      [] site = "lib_architecture"  -> "switch"
      [] site = "matching_dlls"     -> "lib_files_debug"
      [] site = "lib_files_debug"   -> "lib_files_release"
      [] site = "lib_files_release" -> AfterLibFiles
      [] site = "exports"           -> "uwp_bit"
      [] site = "uwp_bit"           -> "outdated_crt"
      [] site = "outdated_crt"      -> IF win32 THEN "dll_architecture" ELSE "empty_folders"
      [] site = "dll_architecture"  -> "empty_folders"
      [] site = "no_dlls_present"   -> "bin_folders"
      [] site = "bin_folders"       -> AfterBinFolders
      [] site = "crt_debug"         -> "crt_release"
      [] site = "crt_release"       -> "empty_folders"
      [] site = "empty_folders"     -> "files_in_root"
      [] site = "files_in_root"     -> "files_in_debug"
      [] site = "files_in_debug"    -> "return"

\* What the step at site printed, as the log keeps it.
Printed(site, out) == [i \in 1..Len(out) |-> [site |-> site, diag |-> out[i]]]

\* A slip in the sequence of the checks: the first violation ends the call.
Execute_returning_at_first_error(site, r) ==
    /\ pc = site
    /\ log' = log \o Printed(site, r.out)
    /\ invocations' = invocations \o r.calls
    /\ IF r.exited
       THEN /\ pc' = "Aborted"
            /\ UNCHANGED <<error_count, verdicts>>
       ELSE /\ error_count' = operator_plus_eq(error_count, r.status)
            /\ verdicts' = Append(verdicts, [site |-> site, status |-> r.status])
            /\ pc' = IF r.status = "ERROR_DETECTED" THEN "return" ELSE Successor(site)
    /\ UNCHANGED <<returned, inputs, first>>

\* A slip in the handling of a fatal failure: the call returns the count it
\* has so far.
Execute_returning_count_on_exit(site, r) ==
    /\ pc = site
    /\ log' = log \o Printed(site, r.out)
    /\ invocations' = invocations \o r.calls
    /\ IF r.exited
       THEN /\ pc' = "Done"
            /\ returned' = << error_count >>
            /\ UNCHANGED <<error_count, verdicts>>
       ELSE /\ error_count' = operator_plus_eq(error_count, r.status)
            /\ verdicts' = Append(verdicts, [site |-> site, status |-> r.status])
            /\ pc' = Successor(site)
            /\ UNCHANGED returned
    /\ UNCHANGED <<inputs, first>>

\* error_count += <the check at site>, where the check gave result r.
Execute(site, r) ==
    /\ pc = site
    /\ log' = log \o Printed(site, r.out)
    /\ invocations' = invocations \o r.calls
    /\ IF r.exited
       THEN /\ pc' = "Aborted"
            /\ UNCHANGED <<error_count, verdicts>>
       ELSE /\ error_count' = operator_plus_eq(error_count, r.status)
            /\ verdicts' = Append(verdicts, [site |-> site, status |-> r.status])
            /\ pc' = Successor(site)
    /\ UNCHANGED <<returned, inputs, first>>

\* A slip at the entry: the counter is kept from call to call (a static
\* variable) and not set to 0.
Start_keeping_error_count ==
    /\ pc = "start"
    /\ log' = log \o Printed("start", << Plain("-- Performing post-build validation") >>)
    /\ error_count' = error_count
    /\ pc' = IF policies["EMPTY_PACKAGE"] THEN "return" ELSE "include"
    /\ UNCHANGED <<verdicts, invocations, returned, inputs, first>>

\* A slip at the entry: the EMPTY_PACKAGE policy is not looked at.
Start_ignoring_empty_package ==
    /\ pc = "start"
    /\ log' = log \o Printed("start", << Plain("-- Performing post-build validation") >>)
    /\ error_count' = 0
    /\ pc' = "include"
    /\ UNCHANGED <<verdicts, invocations, returned, inputs, first>>

\* perform_all_checks prints its banner and enters
\* perform_all_checks_and_return_error_count (lines 855, 736-747).
Start ==
    /\ pc = "start"
    /\ log' = log \o Printed("start", << Plain("-- Performing post-build validation") >>)
    /\ error_count' = 0
    /\ pc' = IF policies["EMPTY_PACKAGE"] THEN "return" ELSE "include"
    /\ UNCHANGED <<verdicts, invocations, returned, inputs, first>>

CheckInclude ==
    Execute("include", check_for_files_in_include_directory(tree, policies))

CheckDebugInclude ==
    Execute("debug_include", check_for_files_in_debug_include_directory(tree))

CheckDebugShare ==
    Execute("debug_share", check_for_files_in_debug_share_directory(tree))

CheckLibCmake ==
    Execute("lib_cmake", check_folder_lib_cmake(tree))

CheckMisplacedCmake ==
    Execute("misplaced_cmake", check_for_misplaced_cmake_files(tree))

CheckDebugLibCmake ==
    Execute("debug_lib_cmake", check_folder_debug_lib_cmake(tree))

CheckDllsInLibDir ==
    \/ Execute("dlls_in_lib", check_for_dlls_in_lib_dir(tree, << >>))
    \/ Execute("dlls_in_debug_lib", check_for_dlls_in_lib_dir(tree, <<"debug">>))

CheckCopyright ==
    Execute("copyright", check_for_copyright_file(tree, src_tree))

CheckExes ==
    \/ Execute("exes", check_for_exes(tree, << >>))
    \/ Execute("exes_debug", check_for_exes(tree, <<"debug">>))

CheckMatching ==
    \/ Execute("matching_libs",
               check_matching_debug_and_release_binaries(debug_libs(tree), release_libs(tree)))
    \/ Execute("matching_dlls",
               check_matching_debug_and_release_binaries(debug_dlls(tree), release_dlls(tree)))

CheckLibArchitecture ==
    Execute("lib_architecture",
            check_lib_architecture(win32, target_architecture,
                                   debug_libs(tree) \o release_libs(tree)))

\* A slip in the switch: the STATIC case is taken whatever the linkage is.
SelectLinkage_always_static ==
    /\ pc = "switch"
    /\ pc' = "no_dlls_present"
    /\ UNCHANGED <<log, error_count, verdicts, invocations, returned, inputs, first>>

\* A slip in the switch: without the default case a linkage that is not
\* recognised falls through to the closing checks.
SelectLinkage_without_default ==
    /\ pc = "switch"
    /\ pc' = IF library_linkage = "DYNAMIC" THEN DynamicEntry
             ELSE IF library_linkage = "STATIC" THEN "no_dlls_present"
             ELSE "empty_folders"
    /\ UNCHANGED <<log, error_count, verdicts, invocations, returned, inputs, first>>

\* switch (build_info.library_linkage), lines 787-841.
SelectLinkage ==
    /\ pc = "switch"
    /\ IF library_linkage = "DYNAMIC"
       THEN pc' = DynamicEntry /\ UNCHANGED log
       ELSE IF library_linkage = "STATIC"
       THEN pc' = "no_dlls_present" /\ UNCHANGED log
       ELSE /\ pc' = "Aborted"
            /\ log' = log \o Printed("switch", << Diag("error", "Checks::unreachable", << >>, << >>) >>)
    /\ UNCHANGED <<error_count, verdicts, invocations, returned, inputs, first>>

\* A slip in the second call: the directory of the first is passed again.
CheckLibFiles_citing_one_directory ==
    \/ Execute("lib_files_debug",
               check_lib_files_are_available_if_dlls_are_available(
                   policies, Len(debug_libs(tree)), Len(debug_dlls(tree)), "debug/lib"))
    \/ Execute("lib_files_release",
               check_lib_files_are_available_if_dlls_are_available(
                   policies, Len(release_libs(tree)), Len(release_dlls(tree)), "debug/lib"))

CheckLibFiles ==
    \/ Execute("lib_files_debug",
               check_lib_files_are_available_if_dlls_are_available(
                   policies, Len(debug_libs(tree)), Len(debug_dlls(tree)), "debug/lib"))
    \/ Execute("lib_files_release",
               check_lib_files_are_available_if_dlls_are_available(
                   policies, Len(release_libs(tree)), Len(release_dlls(tree)), "lib"))

CheckExports ==
    Execute("exports", check_exports_of_dlls(debug_dlls(tree) \o release_dlls(tree)))

CheckUwpBit ==
    Execute("uwp_bit",
            check_uwp_bit_of_dlls(cmake_system_name, debug_dlls(tree) \o release_dlls(tree)))

CheckOutdatedCrt ==
    Execute("outdated_crt",
            check_outdated_crt_linkage_of_dlls(debug_dlls(tree) \o release_dlls(tree),
                                               policies, platform_toolset))

CheckDllArchitecture ==
    Execute("dll_architecture",
            check_dll_architecture(target_architecture,
                                   debug_dlls(tree) \o release_dlls(tree)))

CheckNoDllsPresent ==
    Execute("no_dlls_present",
            check_no_dlls_present(release_dlls(tree) \o debug_dlls(tree)))

CheckBinFolders ==
    Execute("bin_folders", check_bin_folders_are_not_present_in_static_build(tree))

CheckCrtLinkage ==
    \/ Execute("crt_debug",
               check_crt_linkage_of_libs(value_of("DEBUG", crt_linkage), debug_libs(tree)))
    \/ Execute("crt_release",
               check_crt_linkage_of_libs(value_of("RELEASE", crt_linkage), release_libs(tree)))

\* A slip in the check for empty directories: it does what its message
\* tells the portfile's author to do (file(REMOVE_RECURSE ...), lines
\* 587-590) and removes the directories it has found.
CheckNoEmptyFolders_removing_them ==
    LET r == check_no_empty_folders(tree, << >>)
    IN  /\ pc = "empty_folders"
        /\ log' = log \o Printed("empty_folders", r.out)
        /\ invocations' = invocations \o r.calls
        /\ error_count' = operator_plus_eq(error_count, r.status)
        /\ verdicts' = Append(verdicts, [site |-> "empty_folders", status |-> r.status])
        /\ pc' = Successor("empty_folders")
        /\ tree' = {f \in tree : ~ (is_directory(tree, f) /\ is_empty(tree, EntryOf[f].path))}
        /\ UNCHANGED <<returned, src_tree, policies, library_linkage, crt_linkage,
                       target_architecture, platform_toolset, build_type,
                       cmake_system_name, dumpbin, win32, first>>

CheckNoEmptyFolders ==
    Execute("empty_folders", check_no_empty_folders(tree, << >>))

CheckNoFilesInDir ==
    \/ Execute("files_in_root", check_no_files_in_dir(tree, << >>))
    \/ Execute("files_in_debug", check_no_files_in_dir(tree, <<"debug">>))

\* perform_all_checks gets the count back, prints the summary and returns
\* (lines 856-869).
Return ==
    /\ pc = "return"
    /\ log' = log \o Printed("return",
                  (IF error_count # 0
                   THEN << Diag("error", "Found %u error(s). Please correct the portfile:",
                                << "ports/pkg/portfile.cmake" >>, << ToString(error_count) >>) >>
                   ELSE << >>)
                  \o << Plain("-- Performing post-build validation done") >>)
    /\ returned' = << error_count >>
    /\ pc' = "Done"
    /\ UNCHANGED <<error_count, verdicts, invocations, inputs, first>>

----------------------------------------------------------------------------
(* The calls the model starts from.                                        *)

Options ==
    {"crt_static", "x86", "v120", "no_toolset",
     "build_type", "WindowsStore", "no_dumpbin", "not_win32"}

\* Build::LinkageType, and a value the switch has no case for.
LinkageTypes == {"DYNAMIC", "STATIC", "UNRECOGNIZED"}

Deviations == FileIds \cup SrcIds \cup BuildPolicy \cup Options

RECURSIVE SubsetsUpTo(_, _)
SubsetsUpTo(S, k) ==
    IF k = 0 THEN {{}}
    ELSE LET R == SubsetsUpTo(S, k - 1)
         IN  R \cup {r \cup {x} : r \in R, x \in S}

Scenarios == SubsetsUpTo(Deviations, MaxDeviations)

\* The call of perform_all_checks whose arguments differ in D from the
\* package base built with the default configuration, with the given
\* linkage.
CallOver(base, D, linkage) ==
    /\ tree = {f \in FileIds : (f \in base) # (f \in D)}
    /\ src_tree = SrcIds \cap D
    /\ policies = [p \in BuildPolicy |-> p \in D]
    /\ library_linkage = linkage
    /\ crt_linkage = IF "crt_static" \in D THEN "STATIC" ELSE "DYNAMIC"
    /\ target_architecture = IF "x86" \in D THEN "x86" ELSE "x64"
    /\ platform_toolset = IF "v120" \in D THEN << "v120" >>
                          ELSE IF "no_toolset" \in D THEN << >>
                          ELSE << "v141" >>
    /\ build_type = IF "build_type" \in D THEN << "release" >> ELSE << >>
    /\ cmake_system_name = IF "WindowsStore" \in D THEN "WindowsStore" ELSE ""
    /\ dumpbin = IF "no_dumpbin" \in D THEN << >> ELSE << "dumpbin.exe" >>
    /\ win32 = ("not_win32" \notin D)
    /\ pc = "start"
    /\ error_count = 0
    /\ verdicts = << >>
    /\ log = << >>
    /\ invocations = << >>
    /\ returned = << >>
    /\ first = << >>

Call(D, linkage) == CallOver(BaseTree, D, linkage)

Init == \E D \in Scenarios, linkage \in LinkageTypes : Call(D, linkage)

\* A package with a library and a dynamic module in each configuration.
BinaryTree ==
    BaseTree \cup {"lib/ok.lib", "debug/lib/ok.lib", "bin/ok.dll", "debug/bin/ok.dll"}

\* The calls over the packages near the header-only package and near the
\* package with binaries.
BinaryInit ==
    \E base \in {BaseTree, BinaryTree}, D \in Scenarios, linkage \in LinkageTypes :
        CallOver(base, D, linkage)

Next ==
    \/ Start
    \/ CheckInclude
    \/ CheckDebugInclude
    \/ CheckDebugShare
    \/ CheckLibCmake
    \/ CheckMisplacedCmake
    \/ CheckDebugLibCmake
    \/ CheckDllsInLibDir
    \/ CheckCopyright
    \/ CheckExes
    \/ CheckMatching
    \/ CheckLibArchitecture
    \/ SelectLinkage
    \/ CheckLibFiles
    \/ CheckExports
    \/ CheckUwpBit
    \/ CheckOutdatedCrt
    \/ CheckDllArchitecture
    \/ CheckNoDllsPresent
    \/ CheckBinFolders
    \/ CheckCrtLinkage
    \/ CheckNoEmptyFolders
    \/ CheckNoFilesInDir
    \/ Return

Spec == Init /\ [][Next]_vars

\* What is kept of a call that has ended: the policies it was made under,
\* how it ended, the count it returned and what it printed.
Outcome == [policies |-> policies, pc |-> pc, returned |-> returned, log |-> log]

\* perform_all_checks is called again, in a new process if the call before
\* was aborted, with the same arguments over the same package.  The local
\* error_count of the new call holds whatever the memory holds until line
\* 742 sets it.
Rerun ==
    /\ pc \in {"Done", "Aborted"}
    /\ first = << >>
    /\ first' = << Outcome >>
    /\ pc' = "start"
    /\ log' = << >>
    /\ verdicts' = << >>
    /\ invocations' = << >>
    /\ returned' = << >>
    /\ UNCHANGED <<error_count, inputs>>

NextTwice == Next \/ Rerun

TwiceSpec == Init /\ [][NextTwice]_vars

\* perform_all_checks is called again over the same package and with the
\* same configuration, the portfile having enabled one more policy.
RerunWithOneMorePolicy ==
    /\ pc \in {"Done", "Aborted"}
    /\ first = << >>
    /\ \E p \in BuildPolicy :
          /\ ~policies[p]
          /\ policies' = [policies EXCEPT ![p] = TRUE]
    /\ first' = << Outcome >>
    /\ pc' = "start"
    /\ log' = << >>
    /\ verdicts' = << >>
    /\ invocations' = << >>
    /\ returned' = << >>
    /\ UNCHANGED <<error_count, tree, src_tree, library_linkage, crt_linkage,
                   target_architecture, platform_toolset, build_type,
                   cmake_system_name, dumpbin, win32>>

PolicyInit ==
    \E base \in {BaseTree, BinaryTree},
       D \in SubsetsUpTo(Deviations, MaxDeviationsPolicy),
       linkage \in LinkageTypes :
        CallOver(base, D, linkage)

NextWithPolicy == Next \/ RerunWithOneMorePolicy

PolicySpec == PolicyInit /\ [][NextWithPolicy]_vars

BinarySpec == BinaryInit /\ [][Next]_vars

----------------------------------------------------------------------------
(* What the claims speak of.                                               *)

\* The positions of the verdicts the check at site returned.
VerdictsAt(site) == {i \in DOMAIN verdicts : verdicts[i].site = site}

Ran(site) == VerdictsAt(site) # {}

\* The check at site returned status.
Verdict(site, status) == \E i \in VerdictsAt(site) : verdicts[i].status = status

\* The files the diagnostics of the check at site list.
Listed(site) ==
    UNION {Range(log[i].diag.files) : i \in {j \in DOMAIN log : log[j].site = site}}

\* The sites of the checks that have returned.
Executed == {verdicts[i].site : i \in DOMAIN verdicts}

NumErrors == Cardinality({i \in DOMAIN verdicts : verdicts[i].status = "ERROR_DETECTED"})

IsDll(f) == ~EntryOf[f].is_dir /\ EntryOf[f].ext = ".dll"

----------------------------------------------------------------------------
\* C1: in a call that has returned, the error count returned is the number
\* of checks of the call that returned ERROR_DETECTED: such a check adds
\* one, a check that returned SUCCESS adds nothing, however many files the
\* check listed.  (The count kept while the call runs is that number too.)
C1_CountIsNumberOfErrorVerdicts ==
    /\ pc = "Done" => returned = << NumErrors >>
    /\ pc # "start" => error_count = NumErrors

\* A finished call in which one failed check listed two files and another
\* check passed.
C1_Witness ==
    /\ pc = "Done"
    /\ returned # << 0 >>
    /\ \E i \in DOMAIN log : Len(log[i].diag.files) >= 2
    /\ \E i \in DOMAIN verdicts : verdicts[i].status = "SUCCESS"

----------------------------------------------------------------------------
\* The architecture check_lib_architecture derives for a library that has
\* exactly one machine type differs from the target architecture.
LibArchitectureDiffers(f) ==
    /\ Len(read_lib(f).machine_types) = 1
    /\ get_actual_architecture(read_lib(f).machine_types[1]) # target_architecture

\* C2: where check_lib_architecture reads the libraries (_WIN32) and has
\* returned, every library of its list whose derived architecture differs
\* from the target architecture is listed in the violation detail and the
\* verdict is ERROR_DETECTED; the verdict is SUCCESS only if no library of
\* the list differs.
C2_EveryMismatchedLibIsReported ==
    (win32 /\ Ran("lib_architecture")) =>
        LET libs == Range(debug_libs(tree) \o release_libs(tree))
            differing == {f \in libs : LibArchitectureDiffers(f)}
        IN  /\ differing # {} => /\ Verdict("lib_architecture", "ERROR_DETECTED")
                                 /\ differing \subseteq Listed("lib_architecture")
            /\ Verdict("lib_architecture", "SUCCESS") => differing = {}

----------------------------------------------------------------------------
----------------------------------------------------------------------------
\* The static libraries of a configuration the CRT-linkage check is given.
LibsOf(config) ==
    Range(IF config = "DEBUG" THEN debug_libs(tree) ELSE release_libs(tree))

\* The site of the CRT-linkage check of a configuration.
CrtSite(config) == IF config = "DEBUG" THEN "crt_debug" ELSE "crt_release"

\* The library's link directives hold the marker of the build type.
CarriesMarker(f, bt) == crt_regex(bt) \in Directives(f)

\* The library's link directives hold the marker of a build type other than
\* the one it is built as.
CarriesForeignMarker(f, config) ==
    \E bt \in Range(BuildTypeC_VALUES) :
        bt # value_of(config, crt_linkage) /\ CarriesMarker(f, bt)

\* C4 as stated: where the CRT-linkage check of a configuration has
\* returned, a library of that configuration whose link directives lack
\* the marker of its own build type makes the check return ERROR_DETECTED.
C4_AsStated_LibLackingOwnMarkerIsAnError ==
    \A config \in {"DEBUG", "RELEASE"} :
        Ran(CrtSite(config)) =>
            \A f \in LibsOf(config) :
                ~CarriesMarker(f, value_of(config, crt_linkage)) =>
                    Verdict(CrtSite(config), "ERROR_DETECTED")

\* C4 as amended: in a STATIC call with the tool at hand, the CRT-linkage
\* check of a configuration returns ERROR_DETECTED exactly if a library of
\* the configuration carries the marker of a build type other than its own,
\* and it lists exactly those libraries; a library that carries no marker
\* at all passes.  The release libraries are checked in every such call
\* that returns; the debug libraries are checked unless ONLY_RELEASE_CRT is
\* enabled, and then they are not checked.
C4_LibWithForeignMarkerIsAnError ==
    /\ \A config \in {"DEBUG", "RELEASE"} :
          Ran(CrtSite(config)) =>
              LET foreign == {f \in LibsOf(config) : CarriesForeignMarker(f, config)}
              IN  /\ Verdict(CrtSite(config), "ERROR_DETECTED") <=> foreign # {}
                  /\ Listed(CrtSite(config)) = foreign
    /\ policies["ONLY_RELEASE_CRT"] => ~Ran("crt_debug")
    /\ (pc = "Done" /\ library_linkage = "STATIC" /\ dumpbin # << >>
          /\ ~policies["EMPTY_PACKAGE"]) =>
              /\ Ran("crt_release")
              /\ ~policies["ONLY_RELEASE_CRT"] => Ran("crt_debug")

\* A STATIC call in which the check of the debug libraries found a library
\* with the release marker and the check of the release libraries has
\* passed a library without any marker.
C4_Witness ==
    /\ library_linkage = "STATIC"
    /\ Verdict("crt_debug", "ERROR_DETECTED")
    /\ "debug/lib/rel.lib" \in Listed("crt_debug")
    /\ Verdict("crt_release", "SUCCESS")
    /\ "lib/nocrt.lib" \in tree

----------------------------------------------------------------------------
\* The calls the step makes.
NewCalls == SubSeq(invocations', Len(invocations) + 1, Len(invocations'))

ToolModes == {"/exports", "/headers", "/dependents", "/directives"}

\* The call is a run of the tool that returns a non-zero exit status, or a
\* read of a static archive that exposes more than one machine type.
FailingCall(c) ==
    \/ c.mode \in ToolModes /\ FailingMode(c.file) = c.mode
    \/ c.mode = "read_lib" /\ Len(LibMachineTypes(c.file)) > 1

\* The step meets an environment or invariant failure.
FatalFailure ==
    \/ \E i \in DOMAIN NewCalls : FailingCall(NewCalls[i])
    \/ pc = "switch" /\ library_linkage \notin {"DYNAMIC", "STATIC"}

\* C5: a step in which a run of the tool returns a non-zero exit status, a
\* static archive that is read exposes more than one machine type, or the
\* linkage is not a recognised one, ends the call in Aborted: the failing
\* call is the last the step makes, the step adds no verdict and nothing to
\* the count, no count is returned, and no step follows Aborted.  A call is
\* aborted by such a failure only.
C5_FatalFailureAbortsAtOnce ==
    [][ /\ FatalFailure =>
            /\ pc' = "Aborted"
            /\ verdicts' = verdicts
            /\ error_count' = error_count
            /\ \A i \in DOMAIN NewCalls : FailingCall(NewCalls[i]) => i = Len(NewCalls)
        /\ pc' = "Aborted" => (FatalFailure /\ returned' = << >>)
        /\ pc # "Aborted"
      ]_vars

\* A call aborted by a failing run of the tool after checks had returned
\* violations.
C5_Witness ==
    /\ pc = "Aborted"
    /\ NumErrors >= 1
    /\ invocations # << >>
    /\ LET last == invocations[Len(invocations)]
       IN  last.mode \in ToolModes /\ FailingMode(last.file) = last.mode

----------------------------------------------------------------------------
Opening ==
    {"include", "debug_include", "debug_share", "lib_cmake", "misplaced_cmake",
     "debug_lib_cmake", "dlls_in_lib", "dlls_in_debug_lib", "copyright",
     "exes", "exes_debug", "matching_libs", "lib_architecture"}

DynamicGroup ==
    {"matching_dlls", "lib_files_debug", "lib_files_release",
     "exports", "uwp_bit", "outdated_crt", "dll_architecture"}

StaticGroup == {"no_dlls_present", "bin_folders", "crt_debug", "crt_release"}

Closing == {"empty_folders", "files_in_root", "files_in_debug"}

Sites == Opening \cup DynamicGroup \cup StaticGroup \cup Closing

\* The check at site applies to the call: to its linkage, to the tool being
\* at hand, to the build type being given, to the platform of the build.
Applicable(site) ==
    /\ ~policies["EMPTY_PACKAGE"]
    /\ site \in DynamicGroup => library_linkage = "DYNAMIC"
    /\ site \in StaticGroup => library_linkage = "STATIC"
    /\ site \in {"matching_libs", "matching_dlls"} => build_type = << >>
    /\ site \in {"exports", "uwp_bit", "outdated_crt", "crt_debug", "crt_release"} =>
           dumpbin # << >>
    /\ site = "dll_architecture" => win32
    /\ site = "crt_debug" => ~policies["ONLY_RELEASE_CRT"]

\* C6: a call that returns without the EMPTY_PACKAGE policy has executed
\* every check that applies to it once and no other check, whatever the
\* verdicts; and at no point of a call has a check been executed twice or a
\* check that does not apply been executed.
C6_EveryApplicableCheckRunsOnce ==
    LET applicable == {site \in Sites : Applicable(site)}
    IN  /\ Cardinality(Executed) = Len(verdicts)
        /\ Executed \subseteq applicable
        /\ (pc = "Done" /\ ~policies["EMPTY_PACKAGE"]) => Executed = applicable

\* A call that returned although its first check and a later one had
\* returned violations.
C6_Witness ==
    /\ pc = "Done"
    /\ verdicts # << >>
    /\ verdicts[1].status = "ERROR_DETECTED"
    /\ NumErrors >= 2
    /\ Ran("files_in_debug")

----------------------------------------------------------------------------
\* The calls whose termination is checked.
FairInit ==
    \E D \in SubsetsUpTo(Deviations, MaxDeviationsFair), linkage \in LinkageTypes :
        Call(D, linkage)

\* The call under weak fairness of its steps: the code runs the steps one
\* after the other, so that a call that can take a step takes one.
FairSpec == FairInit /\ [][Next]_vars /\ WF_vars(Next)

Terminal == {"Done", "Aborted"}

\* C7: every call ends, in Done or in Aborted.  In Done it has returned a
\* count and every check that applies to it has been executed; in Aborted
\* it has returned no count and its last message is the fatal one; a count
\* is returned in Done only, and an ended call takes no further step.
C7_EndsInDoneOrAborted ==
    /\ <>(pc \in Terminal)
    /\ [](pc = "Done" => /\ returned # << >>
                         /\ \A site \in Sites : Applicable(site) => Ran(site))
    /\ [](pc = "Aborted" => /\ returned = << >>
                            /\ log # << >>
                            /\ log[Len(log)].diag.color = "error")
    /\ [](returned # << >> => pc = "Done")
    /\ [][pc \notin Terminal]_vars

\* A call that ended in Aborted, without a count, after most of its checks
\* had been executed.
C7_Witness ==
    /\ pc = "Aborted"
    /\ returned = << >>
    /\ Ran("lib_files_release")

----------------------------------------------------------------------------
\* C8: with the EMPTY_PACKAGE policy enabled no check is executed, no call
\* on a binary is made, nothing but the two banners is printed, and the
\* count the call returns is 0.
C8_EmptyPackageSuppressesTheSuite ==
    policies["EMPTY_PACKAGE"] =>
        /\ verdicts = << >>
        /\ invocations = << >>
        /\ \A i \in DOMAIN log :
              /\ log[i].site \in {"start", "return"}
              /\ log[i].diag.color = ""
        /\ pc \in {"start", "return", "Done"}
        /\ pc = "Done" => returned = << 0 >>

\* A call with the policy enabled that has returned, over a package without
\* its copyright file.
C8_Witness ==
    /\ policies["EMPTY_PACKAGE"]
    /\ pc = "Done"
    /\ "share/pkg/copyright" \notin tree

----------------------------------------------------------------------------
\* The order of the checks in perform_all_checks_and_return_error_count.
SiteOrder ==
    << "include", "debug_include", "debug_share", "lib_cmake", "misplaced_cmake",
       "debug_lib_cmake", "dlls_in_lib", "dlls_in_debug_lib", "copyright",
       "exes", "exes_debug", "matching_libs", "lib_architecture",
       "matching_dlls", "lib_files_debug", "lib_files_release",
       "exports", "uwp_bit", "outdated_crt", "dll_architecture",
       "no_dlls_present", "bin_folders", "crt_debug", "crt_release",
       "empty_folders", "files_in_root", "files_in_debug" >>

Position(site) == CHOOSE k \in DOMAIN SiteOrder : SiteOrder[k] = site

\* C9: the checks of a call are executed in the one order; a check of the
\* DYNAMIC or of the STATIC group is executed only after the opening checks
\* and only in a call of that linkage, so that of the two groups one runs;
\* a call that returns without the EMPTY_PACKAGE policy has run the group
\* of its linkage and then, last, the three closing checks.
C9_ChecksRunInFixedOrder ==
    LET n == Len(verdicts)
        group == IF library_linkage = "DYNAMIC" THEN DynamicGroup ELSE StaticGroup
    IN  /\ \A i \in 1..(n - 1) :
              Position(verdicts[i].site) < Position(verdicts[i + 1].site)
        /\ Executed \cap (DynamicGroup \cup StaticGroup \cup Closing) # {} =>
              {o \in Opening : Applicable(o)} \subseteq Executed
        /\ Executed \cap DynamicGroup # {} => library_linkage = "DYNAMIC"
        /\ Executed \cap StaticGroup # {} => library_linkage = "STATIC"
        /\ Executed \cap Closing # {} =>
              {g \in group : Applicable(g)} \subseteq Executed
        /\ (pc \in {"return", "Done"} /\ ~policies["EMPTY_PACKAGE"]) =>
              /\ n >= 3
              /\ verdicts[n - 2].site = "empty_folders"
              /\ verdicts[n - 1].site = "files_in_root"
              /\ verdicts[n].site = "files_in_debug"
              /\ Executed \cap group # {}

\* A DYNAMIC call that has returned after checks of the opening, of the
\* DYNAMIC group and of the closing returned violations.
C9_Witness ==
    /\ pc = "Done"
    /\ library_linkage = "DYNAMIC"
    /\ \E site \in Opening : Verdict(site, "ERROR_DETECTED")
    /\ \E site \in DynamicGroup : Verdict(site, "ERROR_DETECTED")
    /\ Ran("files_in_debug")

----------------------------------------------------------------------------
\* The names a list of outdated runtimes holds.
Names(crts) == Range(crts)

\* C10: for the toolset version of the call, the lookup of the outdated
\* runtimes returns, if the version is "v120", the historical list, which
\* names no runtime of the 120 generation; for any other version, an
\* absent one too, a list that holds every name of the list for "v120" and
\* exactly four more entries, four names the list for "v120" does not hold.
C10_LaterToolsetsGetFourMoreRuntimes ==
    LET historical == get_outdated_dynamic_crts(<< "v120" >>)
        got == get_outdated_dynamic_crts(platform_toolset)
    IN  IF platform_toolset = << "v120" >>
        THEN /\ got = V_NO_120
             /\ Names(got) \cap {"msvcp120.dll", "msvcp120_clr0400.dll",
                                 "msvcr120.dll", "msvcr120_clr0400.dll"} = {}
        ELSE /\ Names(historical) \subseteq Names(got)
             /\ Names(historical) # Names(got)
             /\ Cardinality(Names(got) \ Names(historical)) = 4
             /\ Len(got) = Len(historical) + 4

\* A call without a toolset version in which the check of the outdated
\* runtimes found a module that depends on a runtime of the 120 generation.
C10_Witness ==
    /\ platform_toolset = << >>
    /\ Verdict("outdated_crt", "ERROR_DETECTED")
    /\ "bin/crt120.dll" \in Listed("outdated_crt")

----------------------------------------------------------------------------
\* The dynamic modules the DYNAMIC case hands to the checks of the modules.
DllsOfPackage == Range(debug_dlls(tree) \o release_dlls(tree))

\* The names of the outdated runtimes among the modules f depends on.
OutdatedDependents(f, crts) ==
    {name \in Names(crts) : \E d \in Dependents(f) : ToLower(d) = name}

\* The module depends on a runtime only the longer list names and on none
\* the list for "v120" names.
DependsOnLaterRuntimeOnly(f) ==
    /\ OutdatedDependents(f, V_NO_120) = {}
    /\ OutdatedDependents(f, V_NO_MSVCRT) # {}

\* C11: where the check of the outdated runtimes has returned in a call
\* without the ALLOW_OBSOLETE_MSVCRT policy, a dynamic module that depends
\* on a runtime only the longer list names, and on none of the list for
\* "v120", is not recorded if the toolset version is "v120", and then, with
\* no other module recorded, the check returns SUCCESS; with any other
\* toolset version, an absent one too, the module is recorded and the check
\* returns ERROR_DETECTED.
C11_LaterRuntimeIsOutsideTheScopeOfV120 ==
    (Ran("outdated_crt") /\ ~policies["ALLOW_OBSOLETE_MSVCRT"]) =>
        \A f \in DllsOfPackage :
            DependsOnLaterRuntimeOnly(f) =>
                IF platform_toolset = << "v120" >>
                THEN /\ f \notin Listed("outdated_crt")
                     /\ (\A g \in DllsOfPackage : OutdatedDependents(g, V_NO_120) = {}) =>
                            Verdict("outdated_crt", "SUCCESS")
                ELSE /\ f \in Listed("outdated_crt")
                     /\ Verdict("outdated_crt", "ERROR_DETECTED")

\* A call with the toolset version "v120" in which the check of the
\* outdated runtimes passed a module that depends on a runtime of the 120
\* generation.
C11_Witness ==
    /\ platform_toolset = << "v120" >>
    /\ library_linkage = "DYNAMIC"
    /\ ~policies["ALLOW_OBSOLETE_MSVCRT"]
    /\ "bin/crt120.dll" \in tree
    /\ Verdict("outdated_crt", "SUCCESS")

----------------------------------------------------------------------------
\* The files of the package with the extension below the directory.
FilesBelow(dir, ext) ==
    {f \in tree : ~EntryOf[f].is_dir /\ EntryOf[f].ext = ext /\ Below(dir, f)}

\* The two lists a call of check_matching_debug_and_release_binaries is
\* given at site, as sets of files.
DebugBinaries(site) ==
    IF site = "matching_libs"
    THEN FilesBelow(<<"debug", "lib">>, ".lib")
    ELSE FilesBelow(<<"debug", "bin">>, ".dll")

ReleaseBinaries(site) ==
    IF site = "matching_libs"
    THEN FilesBelow(<<"lib">>, ".lib")
    ELSE FilesBelow(<<"bin">>, ".dll")

\* The counts the check at site printed in its message of a mismatch.
ReportedCounts(site) ==
    {log[i].diag.info : i \in {j \in DOMAIN log :
         /\ log[j].site = site
         /\ log[j].diag.msg = "Mismatching number of debug and release binaries."}}

\* The decimal numerals of the counts that occur.
Numeral(n) ==
    CASE n = 0 -> "0" [] n = 1 -> "1" [] n = 2 -> "2" [] n = 3 -> "3"
      [] n = 4 -> "4" [] n = 5 -> "5" [] n = 6 -> "6" [] n = 7 -> "7"
      [] n = 8 -> "8" [] n = 9 -> "9"

\* C12: where check_matching_debug_and_release_binaries has returned, for
\* the libraries or for the modules, it returned ERROR_DETECTED exactly if
\* the number of the debug binaries differs from the number of the release
\* binaries; then the message cites the two numbers, the debug one first,
\* and the lists printed are the two lists; otherwise it printed nothing.
C12_MismatchIffCountsDiffer ==
    \A site \in {"matching_libs", "matching_dlls"} :
        Ran(site) =>
            LET nd == Cardinality(DebugBinaries(site))
                nr == Cardinality(ReleaseBinaries(site))
            IN  IF nd # nr
                THEN /\ Verdict(site, "ERROR_DETECTED")
                     /\ ReportedCounts(site) = {<< Numeral(nd), Numeral(nr) >>}
                     /\ Listed(site) = DebugBinaries(site) \cup ReleaseBinaries(site)
                ELSE /\ Verdict(site, "SUCCESS")
                     /\ \A i \in DOMAIN log : log[i].site # site

\* A call in which the check found two debug libraries and no release
\* library, and then as many debug modules as release modules.
C12_Witness ==
    /\ Verdict("matching_libs", "ERROR_DETECTED")
    /\ ReportedCounts("matching_libs") = {<< "2", "0" >>}
    /\ Verdict("matching_dlls", "SUCCESS")

----------------------------------------------------------------------------
\* The site of the import-library check of a configuration, the directory
\* the check cites, and the directory of the configuration's modules.
LibFilesSite(config) == IF config = "DEBUG" THEN "lib_files_debug" ELSE "lib_files_release"

LibDirOf(config) == IF config = "DEBUG" THEN "debug/lib" ELSE "lib"

BinDirOf(config) == IF config = "DEBUG" THEN <<"debug", "bin">> ELSE <<"bin">>

\* The package holds no .lib file.
NoImportLibs == \A f \in tree : EntryOf[f].is_dir \/ EntryOf[f].ext # ".lib"

\* C13: where the import-library check of a configuration has returned:
\* with the DLLS_WITHOUT_LIBS policy enabled it returned SUCCESS and printed
\* nothing; with the policy disabled, in a package without any .lib file,
\* it returned ERROR_DETECTED, citing the library directory of the
\* configuration, if the configuration holds a dynamic module, and SUCCESS
\* if it holds none.
C13_ModulesWithoutImportLibs ==
    \A config \in {"DEBUG", "RELEASE"} :
        Ran(LibFilesSite(config)) =>
            IF policies["DLLS_WITHOUT_LIBS"]
            THEN /\ Verdict(LibFilesSite(config), "SUCCESS")
                 /\ \A i \in DOMAIN log : log[i].site # LibFilesSite(config)
            ELSE NoImportLibs =>
                    IF FilesBelow(BinDirOf(config), ".dll") # {}
                    THEN /\ Verdict(LibFilesSite(config), "ERROR_DETECTED")
                         /\ Listed(LibFilesSite(config)) = {LibDirOf(config)}
                    ELSE Verdict(LibFilesSite(config), "SUCCESS")

\* A DYNAMIC call without the policy over a package with a debug module and
\* no library: the check of the debug configuration cited debug/lib and the
\* check of the release configuration passed.
C13_Witness ==
    /\ library_linkage = "DYNAMIC"
    /\ ~policies["DLLS_WITHOUT_LIBS"]
    /\ NoImportLibs
    /\ "debug/bin/ok.dll" \in tree
    /\ Verdict("lib_files_debug", "ERROR_DETECTED")
    /\ Verdict("lib_files_release", "SUCCESS")

----------------------------------------------------------------------------
\* Something of the package lies below the directory.
Populated(dir) == \E f \in tree : Below(dir, f)

\* The directory, or something below it, is in the package.
Present(dir) == \E f \in tree : IsPrefix(dir, EntryOf[f].path)

ConfigOf(f) == IF EntryOf[f].path[1] = "debug" THEN "DEBUG" ELSE "RELEASE"

LibsOfPackage == FilesBelow(<<"debug", "lib">>, ".lib") \cup FilesBelow(<<"lib">>, ".lib")

BinDllsOfPackage == FilesBelow(<<"debug", "bin">>, ".dll") \cup FilesBelow(<<"bin">>, ".dll")

\* None of the conditions that trigger a check of every package holds.
CleanForEveryLinkage ==
    /\ Populated(<<"include">>)
    /\ \E f \in tree : EntryOf[f].path = <<"share", "pkg", "copyright">>
    /\ ~Present(<<"debug", "include">>)
    /\ ~Present(<<"debug", "share">>)
    /\ \A dir \in {<<"cmake">>, <<"debug", "cmake">>, <<"lib", "cmake">>,
                   <<"debug", "lib", "cmake">>} : ~Present(dir)
    /\ FilesBelow(<<"lib">>, ".dll") = {}
    /\ FilesBelow(<<"debug", "lib">>, ".dll") = {}
    /\ FilesBelow(<<"bin">>, ".exe") = {}
    /\ FilesBelow(<<"debug", "bin">>, ".exe") = {}
    /\ Cardinality(FilesBelow(<<"debug", "lib">>, ".lib"))
          = Cardinality(FilesBelow(<<"lib">>, ".lib"))
    /\ \A f \in LibsOfPackage :
          /\ Len(LibMachineTypes(f)) = 1
          /\ get_actual_architecture(LibMachineTypes(f)[1]) = target_architecture
    /\ \A f \in tree : EntryOf[f].is_dir => Populated(EntryOf[f].path)
    /\ \A f \in tree :
          (~EntryOf[f].is_dir
             /\ (Len(EntryOf[f].path) = 1
                   \/ (Len(EntryOf[f].path) = 2 /\ EntryOf[f].path[1] = "debug")))
          => filename(f) \in {"CONTROL", "BUILD_INFO"}

\* None of the conditions that trigger a check of the DYNAMIC case holds.
CleanForDynamic ==
    /\ Cardinality(FilesBelow(<<"debug", "bin">>, ".dll"))
          = Cardinality(FilesBelow(<<"bin">>, ".dll"))
    /\ \A config \in {"DEBUG", "RELEASE"} :
          FilesBelow(BinDirOf(config), ".dll") # {} =>
              \E f \in LibsOfPackage : ConfigOf(f) = config
    /\ \A f \in BinDllsOfPackage :
          /\ "ordinal hint RVA      name" \in cmd_execute_and_capture_output("/exports", f).output
          /\ cmake_system_name = "WindowsStore" =>
                "App Container" \in cmd_execute_and_capture_output("/headers", f).output
          /\ OutdatedDependents(f, V_NO_MSVCRT) = {}
          /\ get_actual_architecture(read_dll(f).machine_type) = target_architecture

\* None of the conditions that trigger a check of the STATIC case holds.
CleanForStatic ==
    /\ BinDllsOfPackage = {}
    /\ ~Present(<<"bin">>)
    /\ ~Present(<<"debug", "bin">>)
    /\ \A f \in LibsOfPackage : ~CarriesForeignMarker(f, ConfigOf(f))

Clean ==
    /\ CleanForEveryLinkage
    /\ library_linkage = "DYNAMIC" => CleanForDynamic
    /\ library_linkage = "STATIC" => CleanForStatic

\* C14: a call that has returned over a package with none of the
\* triggering conditions returned the count 0, no check returned
\* ERROR_DETECTED, and nothing but the two banners was printed: no
\* diagnostic and no summary.
C14_CleanPackageHasNoErrors ==
    (pc = "Done" /\ Clean) =>
        /\ returned = << 0 >>
        /\ \A i \in DOMAIN verdicts : verdicts[i].status = "SUCCESS"
        /\ \A i \in DOMAIN log :
              /\ log[i].site \in {"start", "return"}
              /\ log[i].diag.color = ""

\* A DYNAMIC call that has returned over a clean package with a CONTROL
\* file, libraries and dynamic modules, all checks of the modules executed.
C14_Witness ==
    /\ pc = "Done"
    /\ Clean
    /\ library_linkage = "DYNAMIC"
    /\ "CONTROL" \in tree
    /\ BinDllsOfPackage # {}
    /\ Ran("outdated_crt")
    /\ Ran("dll_architecture")
    /\ returned = << 0 >>

----------------------------------------------------------------------------
\* C15: a second call over the same package, artifact metadata, policies
\* and configuration ends as the first did: both return, with the same
\* count, or both are aborted, at the same check, and both print the same
\* diagnostics in the same order.
C15_SecondCallEndsAsTheFirst ==
    (first # << >> /\ pc \in Terminal) => first[1] = Outcome

\* A second call that has returned a count other than 0 after printing
\* diagnostics.
C15_Witness ==
    /\ first # << >>
    /\ pc = "Done"
    /\ returned \notin {<< >>, << 0 >>}
    /\ Len(log) > 3

----------------------------------------------------------------------------
\* C16: every step of a run, whether its check passes, fails or aborts the
\* run, leaves the package tree, the policies and the rest of what the run
\* was given as they were; what a step changes is the counter, which never
\* goes down, and the log, which only grows at its end.
IsPrefixOf(s, t) == Len(s) <= Len(t) /\ SubSeq(t, 1, Len(s)) = s

C16_StepsOnlyCountAndPrint ==
    [][/\ tree' = tree
       /\ src_tree' = src_tree
       /\ policies' = policies
       /\ inputs' = inputs
       /\ error_count' >= error_count
       /\ IsPrefixOf(log, log')]_vars

\* A run in which one check has passed, one has failed and one has aborted
\* the run.
C16_Witness ==
    /\ pc = "Aborted"
    /\ Verdict("include", "SUCCESS")
    /\ NumErrors > 0
    /\ error_count > 0
    /\ Len(log) > 1

----------------------------------------------------------------------------
\* C17: over the same package tree, artifact metadata and configuration, a
\* call made with one more policy enabled that returns, after a call
\* that returned, does not return a greater count.
AddedPolicies == {p \in BuildPolicy : policies[p] /\ ~first[1].policies[p]}

C17_OneMorePolicyAddsNoError ==
    (first # << >> /\ first[1].pc = "Done" /\ pc = "Done")
        => returned[1] <= first[1].returned[1]

\* A STATIC package whose libraries were subject to the check of the debug
\* CRT in the first call, which returned a count, and are not in the second,
\* made with ONLY_RELEASE_CRT, which returns a smaller one.
C17_Witness ==
    /\ first # << >>
    /\ first[1].pc = "Done"
    /\ pc = "Done"
    /\ AddedPolicies = {"ONLY_RELEASE_CRT"}
    /\ library_linkage = "STATIC"
    /\ Ran("crt_release")
    /\ ~Ran("crt_debug")
    /\ returned[1] < first[1].returned[1]

----------------------------------------------------------------------------
\* The number of ERROR_DETECTED the check at site has added to the count.
ErrorsAt(site) ==
    Cardinality({i \in VerdictsAt(site) : verdicts[i].status = "ERROR_DETECTED"})

CountsDiffer(site) ==
    Cardinality(DebugBinaries(site)) # Cardinality(ReleaseBinaries(site))

\* C18: the check that counts debug against release binaries is made only
\* in a build that declares no build type.  In such a build, once the call
\* is past line 772, the libraries have been counted, whatever the linkage,
\* and have added one error if the counts differ and none if they do not;
\* once a DYNAMIC call is past line 792 the same holds of the modules; the
\* modules are counted in no other linkage.
C18_CountMatchingTakesPlaceWithoutBuildType ==
    /\ \A site \in {"matching_libs", "matching_dlls"} :
          Ran(site) => build_type = << >> /\ Cardinality(VerdictsAt(site)) = 1
    /\ Ran("matching_dlls") => library_linkage = "DYNAMIC"
    /\ (Ran("exes_debug") /\ pc # "matching_libs" /\ build_type = << >>)
          => /\ Ran("matching_libs")
             /\ ErrorsAt("matching_libs") = IF CountsDiffer("matching_libs") THEN 1 ELSE 0
    /\ (/\ Ran("lib_architecture")
        /\ pc \notin {"switch", "matching_dlls"}
        /\ build_type = << >>
        /\ library_linkage = "DYNAMIC")
          => /\ Ran("matching_dlls")
             /\ ErrorsAt("matching_dlls") = IF CountsDiffer("matching_dlls") THEN 1 ELSE 0

\* A STATIC call that has returned, over a package in which the numbers of
\* the libraries differ and the numbers of the modules differ: the first has
\* added an error, the second was not looked at.
C18_Witness ==
    /\ pc = "Done"
    /\ library_linkage = "STATIC"
    /\ build_type = << >>
    /\ CountsDiffer("matching_libs")
    /\ CountsDiffer("matching_dlls")
    /\ ErrorsAt("matching_libs") = 1
    /\ ~Ran("matching_dlls")

----------------------------------------------------------------------------
\* C19: in a STATIC call that has returned, if check_no_dlls_present
\* returned ERROR_DETECTED then every module it listed lies below bin or
\* below debug/bin, the check of the bin folders returned ERROR_DETECTED
\* too, and the count returned is 2 at least.
C19_ModulesInStaticBuildCountTwice ==
    (/\ pc = "Done"
     /\ library_linkage = "STATIC"
     /\ Verdict("no_dlls_present", "ERROR_DETECTED"))
        => /\ \A f \in Listed("no_dlls_present") :
                 Below(<<"bin">>, f) \/ Below(<<"debug", "bin">>, f)
           /\ Verdict("bin_folders", "ERROR_DETECTED")
           /\ ~Verdict("bin_folders", "SUCCESS")
           /\ returned[1] >= 2

\* A STATIC call that has returned over a package whose only module lies
\* below debug/bin, there being no bin.
C19_Witness ==
    /\ pc = "Done"
    /\ library_linkage = "STATIC"
    /\ Verdict("no_dlls_present", "ERROR_DETECTED")
    /\ Listed("no_dlls_present") # {}
    /\ ~exists(tree, <<"bin">>)
    /\ returned[1] >= 2

====
